---- MODULE Spec2Model ----
(***************************************************************************)
(* Model of PacketDelay.cpp: the search for the largest inter-packet delay *)
(* of a GigE Vision camera that leaves its frame rate unchanged.           *)
(*                                                                         *)
(* Numbers.  MIL_DOUBLE delays are modelled as exact non-negative decimal  *)
(* numbers (a digit string and a decimal exponent), so the arithmetic of   *)
(* the search (x - x/50, x - x/10, x - x*15/100, x * TickFreq) is the      *)
(* exact real arithmetic, without the rounding of IEEE doubles.  Frame     *)
(* rates are integers counting hundredths of a frame per second, so the    *)
(* 0.1 of IsEqual is 10.  Tick products stay below 2^31, where the         *)
(* (MIL_UINT32) cast of the source is plain truncation.                    *)
(***************************************************************************)
EXTENDS Integers, Sequences, FiniteSets, TLC

(***************************************************************************)
(* Exact decimals: [m |-> digits, least significant first, e |-> k] is the *)
(* number m * 10^(-k).  The canonical form has no leading zero digit, no   *)
(* trailing fractional zero digit, and zero is [m |-> <<>>, e |-> 0].      *)
(***************************************************************************)
RECURSIVE DigitsOf(_)
DigitsOf(n) == IF n = 0 THEN <<>> ELSE <<n % 10>> \o DigitsOf(n \div 10)

RECURSIVE ValueOf(_)
ValueOf(ds) == IF ds = <<>> THEN 0 ELSE Head(ds) + 10 * ValueOf(Tail(ds))

RECURSIVE StripHigh(_)
StripHigh(ds) ==
  IF ds = <<>> THEN <<>>
  ELSE IF ds[Len(ds)] = 0 THEN StripHigh(SubSeq(ds, 1, Len(ds) - 1))
  ELSE ds

RECURSIVE StripLow(_, _)
StripLow(ds, e) ==
  IF ds = <<>> THEN [m |-> <<>>, e |-> 0]
  ELSE IF e > 0 /\ Head(ds) = 0 THEN StripLow(Tail(ds), e - 1)
  ELSE [m |-> ds, e |-> e]

Norm(ds, e) == StripLow(StripHigh(ds), e)

RECURSIVE MulDigits(_, _, _)
MulDigits(ds, k, carry) ==
  IF ds = <<>> THEN DigitsOf(carry)
  ELSE LET v == Head(ds) * k + carry
       IN  <<v % 10>> \o MulDigits(Tail(ds), k, v \div 10)

RECURSIVE Zeros(_)
Zeros(n) == IF n = 0 THEN <<>> ELSE <<0>> \o Zeros(n - 1)

DecZero == [m |-> <<>>, e |-> 0]

DecOfInt(n) == Norm(DigitsOf(n), 0)

\* n / 10^k for naturals n and k
Dec(n, k) == Norm(DigitsOf(n), k)

DecMulInt(d, k) == Norm(MulDigits(d.m, k, 0), d.e)

\* d / k for a divisor whose only prime factors are 2 and 5
RECURSIVE DecDivInt(_, _)
DecDivInt(d, k) ==
  IF k = 1 THEN d
  ELSE IF k % 10 = 0 THEN DecDivInt(Norm(d.m, d.e + 1), k \div 10)
  ELSE IF k % 5 = 0 THEN DecDivInt(Norm(MulDigits(d.m, 2, 0), d.e + 1), k \div 5)
  ELSE DecDivInt(Norm(MulDigits(d.m, 5, 0), d.e + 1), k \div 2)

\* the digits of d written with exponent e >= d.e
Aligned(d, e) == Zeros(e - d.e) \o d.m

Max(a, b) == IF a >= b THEN a ELSE b

RECURSIVE CmpDigits(_, _)
\* -1, 0, 1 as the number xs is below, equal to or above ys
CmpDigits(xs, ys) ==
  IF Len(xs) # Len(ys) THEN (IF Len(xs) < Len(ys) THEN -1 ELSE 1)
  ELSE IF xs = <<>> THEN 0
  ELSE LET n == Len(xs)
       IN  IF xs[n] # ys[n] THEN (IF xs[n] < ys[n] THEN -1 ELSE 1)
           ELSE CmpDigits(SubSeq(xs, 1, n - 1), SubSeq(ys, 1, n - 1))

DecCmp(a, b) ==
  LET e == Max(a.e, b.e)
  IN  CmpDigits(StripHigh(Aligned(a, e)), StripHigh(Aligned(b, e)))

DecLeq(a, b) == DecCmp(a, b) <= 0
DecLess(a, b) == DecCmp(a, b) < 0

RECURSIVE SubDigits(_, _, _)
\* xs - ys - borrow, digit by digit, for xs >= ys
SubDigits(xs, ys, borrow) ==
  IF xs = <<>> THEN <<>>
  ELSE LET y == IF ys = <<>> THEN 0 ELSE Head(ys)
           v == Head(xs) - y - borrow
       IN  <<(v + 10) % 10>>
             \o SubDigits(Tail(xs), IF ys = <<>> THEN <<>> ELSE Tail(ys),
                          IF v < 0 THEN 1 ELSE 0)

\* a - b for a >= b
DecSub(a, b) ==
  LET e == Max(a.e, b.e)
  IN  Norm(SubDigits(Aligned(a, e), Aligned(b, e), 0), e)

\* the integer part of d
DecTrunc(d) ==
  IF Len(d.m) <= d.e THEN 0 ELSE ValueOf(SubSeq(d.m, d.e + 1, Len(d.m)))


(***************************************************************************)
(* Bounds of the model and the inputs it draws.                            *)
(***************************************************************************)
\* search iterations of one run that the model follows (the code has no cap)
MaxIter == 6

\* PixelFormat enumeration entries a camera reports, at most
MaxFormats == 2

GIGE_VISION == "M_GIGE_VISION"
BoardTypes == {GIGE_VISION, "M_SYSTEM_HOST"}

\* M_GC_COUNTER_TICK_FREQUENCY of the cameras tried; 0: no inter-packet delay
TickFrequencies == {0, 2, 1000000}

\* M_GC_THEORETICAL_INTER_PACKET_DELAY the camera may report, in seconds:
\* 0, 0.515 and 0.75 s (1.03 and 1.5 ticks at 2 Hz), 0.0000012 and 0.0005 s
\* (1.2 and 500 ticks at 1 MHz)
TheoreticalDelays(freq) ==
  IF freq = 2 THEN {DecZero, Dec(515, 3), Dec(75, 2)}
  ELSE {Dec(12, 7), Dec(5, 4)}

\* M_PROCESS_FRAME_RATE with no delay, in hundredths of a frame per second
BaseFrameRates == {3000}

\* M_PROCESS_FRAME_RATE under a delay, relative to the rate with no delay:
\* 0.10 and 0.11 frames per second below it
FrameRateDrops == {10, 11}

\* what the inter-packet delay register may hold when the program starts
InitialDelayRegisters == {0, 7}

(***************************************************************************)
(* State.                                                                  *)
(***************************************************************************)
VARIABLES
  camera,         \* the device: board type, tick frequency, pixel formats
  delayRegister,  \* M_GC_INTER_PACKET_DELAY of the camera
  streaming,      \* MdigProcess is grabbing
  pc,             \* position of MosMain
  PktInfo,        \* PacketDelayInfo PktInfo of MosMain
  Results,        \* PacketDelayResults Results of MosMain
  NbIterations,   \* NbIterations of MosMain
  Done,           \* Done of FindInterPacketDelay
  message,        \* the outcome MosMain has printed
  hist,           \* history of the execution, read by the properties only
  isEqual         \* a call of IsEqual on its own: arguments and results

vars == <<camera, delayRegister, streaming, pc, PktInfo, Results,
          NbIterations, Done, message, hist, isEqual>>

\* PacketDelayInfo::PacketDelayInfo(), and memset(&PktInfo, 0, ...)
PacketDelayInfo ==
  [BaseFrameRate |-> 0, ProcessFrameRate |-> 0, DelayInSeconds |-> DecZero,
   TickFreq |-> 0, DelayTickVal |-> 0, ProcessFrameCount |-> 0,
   EqualityCounter |-> 0, Error |-> FALSE]

\* PacketDelayResults::PacketDelayResults(): empty vectors, Selection = 0
PacketDelayResults ==
  [PixelFormats |-> <<>>, InterPacketDelayInTicks |-> <<>>,
   InterPacketDelayInSec |-> <<>>, ReferenceFrameRate |-> <<>>,
   ObtainedFrameRate |-> <<>>, Selection |-> 0]

\* history of the current run, cleared when a run begins: the iterations
\* begun, whether each comparison matched, the ticks each measurement was
\* taken at, why the search stopped, the theoretical delay the camera gave,
\* the delay and the register at the last measurement, and the register
\* when the reference stream started (-1 before), and how many times the
\* search has waited for the camera to settle, and the frame rate of the
\* last measurement
NoRun ==
  [iter |-> 0, matchLog |-> <<>>, tickLog |-> <<>>, stopCause |-> "none",
   theoretical |-> DecZero, measDelay |-> DecZero, measRegister |-> 0,
   baseRegister |-> -1, waits |-> 0, measRate |-> 0]

HistInit ==
  [run |-> NoRun, runs |-> <<>>, all |-> FALSE, regWritten |-> FALSE,
   streamStarted |-> FALSE]

\* no call of IsEqual on its own
NoCall == [A |-> 0, B |-> 0, ab |-> "none", ba |-> "none"]

Cameras ==
  { [BoardType |-> b, TickFreq |-> f, Count |-> n, Compatible |-> c] :
      b \in BoardTypes, f \in TickFrequencies,
      n \in 0..MaxFormats, c \in SUBSET (0..(MaxFormats - 1)) }

\* the compatible entries are entries of the enumeration
ValidCameras == {c \in Cameras : c.Compatible \subseteq 0..(c.Count - 1)}

Init ==
  /\ camera \in ValidCameras
  /\ delayRegister \in InitialDelayRegisters
  /\ streaming = FALSE
  /\ pc = "board_type"
  /\ PktInfo = PacketDelayInfo
  /\ Results = PacketDelayResults
  /\ NbIterations = 0
  /\ Done = FALSE
  /\ message = "none"
  /\ hist = HistInit
  /\ isEqual = NoCall

(***************************************************************************)
(* Helpers of the translation.                                             *)
(***************************************************************************)
\* 0.1 frames per second, the tolerance of IsEqual, in hundredths
Tolerance == 10

\* IsEqual with > and < for >= and <=
IsEqual_Strict(A, B) == ((A + Tolerance) > B) /\ ((A - Tolerance) < B)

IsEqual(A, B) == ((A + Tolerance) >= B) /\ ((A - Tolerance) <= B)

\* the conversion rounding up instead of truncating
DelayToTicks_RoundUp(delay, freq) ==
  LET product == DecMulInt(delay, freq)
  IN  IF product.e = 0 THEN DecTrunc(product) ELSE DecTrunc(product) + 1

\* (MIL_UINT32)(DelayInSeconds * TickFreq)
DelayToTicks(delay, freq) == DecTrunc(DecMulInt(delay, freq))

\* v[i] of a std::vector is defined for 0 <= i < v.size(); Selection holds -1
\* for the unsigned long that EnumeratePixelFormats leaves at (unsigned long)-1
InBounds(v, i) == 0 <= i /\ i < Len(v)

\* v[i] = x
Store(v, i, x) == [v EXCEPT ![i + 1] = x]

RECURSIVE Fill(_, _)
\* std::vector::assign(n, x)
Fill(n, x) == IF n = 0 THEN <<>> ELSE <<x>> \o Fill(n - 1, x)

RECURSIVE CompatibleFormats(_, _)
\* the entries i, i+1, ... Count-1 of the enumeration that MIL can grab
CompatibleFormats(cam, i) ==
  IF i >= cam.Count THEN <<>>
  ELSE (IF i \in cam.Compatible THEN <<i>> ELSE <<>>)
         \o CompatibleFormats(cam, i + 1)


(***************************************************************************)
(* MosMain up to the loop over the selected pixel formats.                 *)
(***************************************************************************)
\* MsysInquire(M_BOARD_TYPE) and the test of line 127
CheckBoardType ==
  /\ pc = "board_type"
  /\ IF camera.BoardType # GIGE_VISION
       THEN /\ message' = "not_gige"
            /\ pc' = "exit"
       ELSE /\ message' = message
            /\ pc' = "tick_frequency"
  /\ UNCHANGED <<isEqual, camera, delayRegister, streaming, PktInfo, Results,
                 NbIterations, Done, hist>>

\* InquireTickFrequency without the test of line 136
InquireTickFrequency_Unchecked ==
  /\ pc = "tick_frequency"
  /\ PktInfo' = [PktInfo EXCEPT !.TickFreq = camera.TickFreq]
  /\ pc' = "enumerate"
  /\ UNCHANGED <<isEqual, camera, delayRegister, streaming, Results,
                 NbIterations, Done, message, hist>>

\* MdigInquire(M_GC_COUNTER_TICK_FREQUENCY) and the test of line 136
InquireTickFrequency ==
  /\ pc = "tick_frequency"
  /\ PktInfo' = [PktInfo EXCEPT !.TickFreq = camera.TickFreq]
  /\ IF camera.TickFreq = 0
       THEN /\ message' = "unsupported"
            /\ pc' = "exit"
       ELSE /\ message' = message
            /\ pc' = "enumerate"
  /\ UNCHANGED <<isEqual, camera, delayRegister, streaming, Results, NbIterations,
                 Done, hist>>

\* EnumeratePixelFormats; sel is the number the user ends up entering
EnumeratePixelFormatsWith(sel) ==
  LET formats == CompatibleFormats(camera, 0)
  IN  IF camera.Count # 0
        THEN [PixelFormats |-> Results.PixelFormats \o formats,
              InterPacketDelayInTicks |-> Fill(camera.Count, 0),
              InterPacketDelayInSec |-> Fill(camera.Count, DecZero),
              ReferenceFrameRate |-> Fill(camera.Count, 0),
              ObtainedFrameRate |-> Fill(camera.Count, 0),
              Selection |-> IF Len(formats) > 1 THEN sel ELSE 0]
        ELSE [Results EXCEPT !.Selection = -1]

EnumeratePixelFormats ==
  /\ pc = "enumerate"
  /\ \E sel \in 0..Len(CompatibleFormats(camera, 0)) :
       Results' = EnumeratePixelFormatsWith(sel)
  /\ pc' = "select"
  /\ UNCHANGED <<isEqual, camera, delayRegister, streaming, PktInfo, NbIterations,
                 Done, message, hist>>

\* lines 156-162: "All" is the entry after the last pixel format
SelectIterations ==
  /\ pc = "select"
  /\ IF Results.Selection = Len(Results.PixelFormats)
       THEN /\ NbIterations' = Len(Results.PixelFormats)
            /\ Results' = [Results EXCEPT !.Selection = 0]
            /\ hist' = [hist EXCEPT !.all = TRUE]
       ELSE /\ NbIterations' = 1
            /\ UNCHANGED <<Results, hist>>
  /\ pc' = "loop"
  /\ UNCHANGED <<isEqual, camera, delayRegister, streaming, PktInfo, Done, message>>

\* BeginRun without the memset of line 167
BeginRun_NoMemset ==
  /\ pc = "loop"
  /\ IF NbIterations = 0
       THEN /\ pc' = "print"
            /\ UNCHANGED <<PktInfo, NbIterations, hist>>
       ELSE /\ NbIterations' = NbIterations - 1
            /\ PktInfo' = [PktInfo EXCEPT !.TickFreq = camera.TickFreq]
            /\ hist' = [hist EXCEPT
                 !.run = NoRun,
                 !.runs = Append(@, [format |-> Results.Selection,
                                     reference |-> 0,
                                     outcome |-> "running"])]
            /\ pc' = "apply_format"
  /\ UNCHANGED <<isEqual, camera, delayRegister, streaming, Results, Done,
                 message>>

\* while(NbIterations--), memset and the inquiry of the tick frequency
BeginRun ==
  /\ pc = "loop"
  /\ IF NbIterations = 0
       THEN /\ pc' = "print"
            /\ UNCHANGED <<PktInfo, NbIterations, hist>>
       ELSE /\ NbIterations' = NbIterations - 1
            /\ PktInfo' = [PacketDelayInfo EXCEPT !.TickFreq = camera.TickFreq]
            /\ hist' = [hist EXCEPT
                 !.run = NoRun,
                 !.runs = Append(@, [format |-> Results.Selection,
                                     reference |-> 0,
                                     outcome |-> "running"])]
            /\ pc' = "apply_format"
  /\ UNCHANGED <<isEqual, camera, delayRegister, streaming, Results, Done, message>>

\* ApplyPixelFormat, AllocateAcquisitionBuffers and the message of line 179.
\* Results.PixelFormats[Results.Selection] out of bounds is undefined: the
\* read may go through (this action) or end the program (OutOfBounds).
ApplyPixelFormat ==
  /\ pc = "apply_format"
  /\ pc' = "ref_delay"
  /\ UNCHANGED <<isEqual, camera, delayRegister, streaming, PktInfo, Results,
                 NbIterations, Done, message, hist>>

\* an access v[Selection] outside the vector ends the program
OutOfBounds ==
  /\ \/ pc = "apply_format" /\ ~InBounds(Results.PixelFormats, Results.Selection)
     \/ pc = "ref_inquire"
          /\ ~InBounds(Results.ReferenceFrameRate, Results.Selection)
     \/ pc = "store" /\ ~PktInfo.Error
          /\ ~InBounds(Results.InterPacketDelayInTicks, Results.Selection)
  /\ pc' = "crashed"
  /\ UNCHANGED <<isEqual, camera, delayRegister, streaming, PktInfo, Results,
                 NbIterations, Done, message, hist>>


(***************************************************************************)
(* AcquireReferenceFrameRate.                                              *)
(***************************************************************************)
\* MdigControl(M_GC_INTER_PACKET_DELAY, 0), line 352
ReferenceDelay == 0

\* AcquireReferenceFrameRate without the MdigControl of line 352
AcquireReference_SetDelay_Skipped ==
  /\ pc = "ref_delay"
  /\ pc' = "ref_start"
  /\ UNCHANGED <<isEqual, camera, delayRegister, streaming, PktInfo, Results,
                 NbIterations, Done, message, hist>>

AcquireReference_SetDelay ==
  /\ pc = "ref_delay"
  /\ delayRegister' = ReferenceDelay
  /\ hist' = [hist EXCEPT !.regWritten = TRUE]
  /\ pc' = "ref_start"
  /\ UNCHANGED <<isEqual, camera, streaming, PktInfo, Results, NbIterations, Done,
                 message>>

\* MdigProcess(M_SEQUENCE + M_COUNT(BUFFERING_SIZE_MAX)), line 356: returns
\* when the sequence has been grabbed
AcquireReference_Start ==
  /\ pc = "ref_start"
  /\ streaming' = TRUE
  /\ hist' = [hist EXCEPT !.streamStarted = TRUE,
                          !.run.baseRegister = delayRegister]
  /\ pc' = "ref_stop"
  /\ UNCHANGED <<isEqual, camera, delayRegister, PktInfo, Results, NbIterations, Done,
                 message>>

\* MdigProcess(M_STOP), line 359
AcquireReference_Stop ==
  /\ pc = "ref_stop"
  /\ streaming' = FALSE
  /\ pc' = "ref_inquire"
  /\ UNCHANGED <<isEqual, camera, delayRegister, PktInfo, Results, NbIterations, Done,
                 message, hist>>

\* lines 363-370, the camera answering rate and delay
AcquireReference_InquireWith(info, rate, delay) ==
  [info EXCEPT !.BaseFrameRate = rate,
               !.DelayInSeconds = delay,
               !.DelayTickVal = DelayToTicks(delay, info.TickFreq)]

\* line 364; a store outside the vector that goes through changes nothing here
StoreReferenceFrameRate(res, rate) ==
  IF InBounds(res.ReferenceFrameRate, res.Selection)
    THEN [res EXCEPT !.ReferenceFrameRate = Store(@, res.Selection, rate)]
    ELSE res

AcquireReference_Inquire ==
  /\ pc = "ref_inquire"
  /\ \E rate \in BaseFrameRates, delay \in TheoreticalDelays(PktInfo.TickFreq) :
       /\ PktInfo' = AcquireReference_InquireWith(PktInfo, rate, delay)
       /\ Results' = StoreReferenceFrameRate(Results, rate)
       /\ hist' = [hist EXCEPT !.run.theoretical = delay,
                               !.runs[Len(hist.runs)].reference = rate]
  /\ Done' = FALSE
  /\ pc' = "set_delay"
  /\ UNCHANGED <<isEqual, camera, delayRegister, streaming, NbIterations, message>>

(***************************************************************************)
(* FindInterPacketDelay.                                                   *)
(***************************************************************************)

\* Find_SetDelay without the register write of line 388
Find_SetDelay_Stale ==
  /\ pc = "set_delay"
  /\ hist.run.iter < MaxIter
  /\ hist' = [hist EXCEPT !.run.iter = @ + 1]
  /\ pc' = "start"
  /\ UNCHANGED <<isEqual, camera, delayRegister, streaming, PktInfo, Results,
                 NbIterations, Done, message>>

\* MdigControl(M_GC_INTER_PACKET_DELAY, Info.DelayTickVal), line 388
Find_SetDelay ==
  /\ pc = "set_delay"
  /\ hist.run.iter < MaxIter
  /\ delayRegister' = PktInfo.DelayTickVal
  /\ hist' = [hist EXCEPT !.regWritten = TRUE, !.run.iter = @ + 1]
  /\ pc' = "start"
  /\ UNCHANGED <<isEqual, camera, streaming, PktInfo, Results, NbIterations, Done,
                 message>>

\* MdigProcess(M_SEQUENCE + M_COUNT(BUFFERING_SIZE_MAX)), line 391
Find_Start ==
  /\ pc = "start"
  /\ streaming' = TRUE
  /\ hist' = [hist EXCEPT !.streamStarted = TRUE]
  /\ pc' = "inquire"
  /\ UNCHANGED <<isEqual, camera, delayRegister, PktInfo, Results, NbIterations, Done,
                 message>>


\* Find_Inquire with Info.BaseFrameRate as the destination at line 395
Find_Inquire_IntoBase ==
  /\ pc = "inquire"
  /\ \E drop \in FrameRateDrops :
       PktInfo' = [PktInfo EXCEPT !.BaseFrameRate = PktInfo.BaseFrameRate - drop]
  /\ hist' = [hist EXCEPT !.run.measDelay = PktInfo.DelayInSeconds,
                          !.run.measRegister = delayRegister,
                          !.run.tickLog = Append(@, PktInfo.DelayTickVal)]
  /\ pc' = "stop"
  /\ UNCHANGED <<isEqual, camera, delayRegister, streaming, Results, NbIterations,
                 Done, message>>

\* MdigInquire(M_PROCESS_FRAME_RATE), line 395
Find_Inquire ==
  /\ pc = "inquire"
  /\ \E drop \in FrameRateDrops :
       PktInfo' = [PktInfo EXCEPT !.ProcessFrameRate = PktInfo.BaseFrameRate - drop]
  /\ hist' = [hist EXCEPT !.run.measDelay = PktInfo.DelayInSeconds,
                          !.run.measRegister = delayRegister,
                          !.run.measRate = PktInfo'.ProcessFrameRate,
                          !.run.tickLog = Append(@, PktInfo.DelayTickVal)]
  /\ pc' = "stop"
  /\ UNCHANGED <<isEqual, camera, delayRegister, streaming, Results, NbIterations,
                 Done, message>>

\* MdigProcess(M_STOP), line 398
Find_Stop ==
  /\ pc = "stop"
  /\ streaming' = FALSE
  /\ pc' = "compare"
  /\ UNCHANGED <<isEqual, camera, delayRegister, PktInfo, Results, NbIterations, Done,
                 message, hist>>

\* Converge with the 2% of line 436 removed first
Converge_AfterShrink(info) ==
  LET shrunk == DecSub(info.DelayInSeconds,
                       DecDivInt(info.DelayInSeconds, 50))
      reduced == DecSub(shrunk, DecDivInt(DecMulInt(shrunk, 15), 100))
      delay == IF DecLeq(reduced, DecZero) THEN DecZero ELSE reduced
  IN  [info EXCEPT !.DelayInSeconds = delay,
                   !.DelayTickVal = DelayToTicks(delay, info.TickFreq)]


\* Converge without the subtraction of line 426
Converge_NoMargin(info) ==
  [info EXCEPT !.DelayTickVal = DelayToTicks(info.DelayInSeconds, info.TickFreq)]

\* lines 426-430: remove 15% and convert
Converge(info) ==
  LET reduced == DecSub(info.DelayInSeconds,
                        DecDivInt(DecMulInt(info.DelayInSeconds, 15), 100))
      delay == IF DecLeq(reduced, DecZero) THEN DecZero ELSE reduced
  IN  [info EXCEPT !.DelayInSeconds = delay,
                   !.DelayTickVal = DelayToTicks(delay, info.TickFreq)]


\* Reduce with += in the place of -= at lines 436 and 445
Reduce_Adds(info, divisor) ==
  LET delay == DecDivInt(DecMulInt(info.DelayInSeconds, divisor + 1), divisor)
  IN  [info EXCEPT !.DelayInSeconds = delay,
                   !.DelayTickVal = DelayToTicks(delay, info.TickFreq)]


\* Reduce with the divisor of line 445 at line 436 too
Reduce_Tenth(info, divisor) ==
  LET delay == DecSub(info.DelayInSeconds,
                      DecDivInt(info.DelayInSeconds, 10))
  IN  [info EXCEPT !.DelayInSeconds = delay,
                   !.DelayTickVal = DelayToTicks(delay, info.TickFreq)]

\* lines 436-437 (divisor 50) and 445-446 (divisor 10)
Reduce(info, divisor) ==
  LET delay == DecSub(info.DelayInSeconds,
                      DecDivInt(info.DelayInSeconds, divisor))
  IN  [info EXCEPT !.DelayInSeconds = delay,
                   !.DelayTickVal = DelayToTicks(delay, info.TickFreq)]


\* Fail without the assignment of Error at lines 419 and 450
Fail_NoError(info) == [info EXCEPT !.DelayInSeconds = DecZero]

\* lines 418-419 and 449-450
Fail(info) == [info EXCEPT !.DelayInSeconds = DecZero, !.Error = TRUE]

\* OnMatch with the tests of lines 416 and 422 in the other order
OnMatch_StreakFirst(info) ==
  LET counted == [info EXCEPT !.EqualityCounter = @ + 1]
  IN  IF counted.EqualityCounter = 3
        THEN [info |-> Converge(counted), done |-> TRUE, cause |-> "converged",
              program |-> TRUE]
      ELSE IF counted.DelayTickVal = 0
        THEN [info |-> Fail(counted), done |-> TRUE, cause |-> "zero_at_match",
              program |-> FALSE]
      ELSE [info |-> Reduce(counted, 50), done |-> FALSE, cause |-> "none",
            program |-> FALSE]

\* lines 414-438: the frame rate obtained equals the reference frame rate
\* [info, done, cause, program]: program is whether line 431 writes the register
OnMatch(info) ==
  LET counted == [info EXCEPT !.EqualityCounter = @ + 1]
  IN  IF counted.DelayTickVal = 0
        THEN [info |-> Fail(counted), done |-> TRUE, cause |-> "zero_at_match",
              program |-> FALSE]
      ELSE IF counted.EqualityCounter = 3
        THEN [info |-> Converge(counted), done |-> TRUE, cause |-> "converged",
              program |-> TRUE]
      ELSE [info |-> Reduce(counted, 50), done |-> FALSE, cause |-> "none",
            program |-> FALSE]

\* OnMismatch without the reset of line 444
OnMismatch_KeepsStreak(info) ==
  LET reduced == Reduce(info, 10)
  IN  IF reduced.DelayTickVal = 0
        THEN [info |-> Fail(reduced), done |-> TRUE, cause |-> "zero_after_shrink",
              program |-> FALSE]
      ELSE IF DecLeq(reduced.DelayInSeconds, DecZero)
        THEN [info |-> [reduced EXCEPT !.DelayInSeconds = DecZero],
              done |-> TRUE, cause |-> "non_positive", program |-> FALSE]
      ELSE [info |-> reduced, done |-> FALSE, cause |-> "none",
            program |-> FALSE]

\* OnMismatch without the test of line 447: only the delay in seconds stops it
OnMismatch_SecondsOnly(info) ==
  LET reduced == Reduce([info EXCEPT !.EqualityCounter = 0], 10)
  IN  IF DecLeq(reduced.DelayInSeconds, DecZero)
        THEN [info |-> [reduced EXCEPT !.DelayInSeconds = DecZero],
              done |-> TRUE, cause |-> "non_positive", program |-> FALSE]
      ELSE [info |-> reduced, done |-> FALSE, cause |-> "none",
            program |-> FALSE]


\* OnMismatch without the subtraction of line 445: the delay is kept
OnMismatch_NoShrink(info) ==
  LET reduced == [info EXCEPT !.EqualityCounter = 0]
  IN  IF reduced.DelayTickVal = 0
        THEN [info |-> Fail(reduced), done |-> TRUE, cause |-> "zero_after_shrink",
              program |-> FALSE]
      ELSE IF DecLeq(reduced.DelayInSeconds, DecZero)
        THEN [info |-> [reduced EXCEPT !.DelayInSeconds = DecZero],
              done |-> TRUE, cause |-> "non_positive", program |-> FALSE]
      ELSE [info |-> reduced, done |-> FALSE, cause |-> "none",
            program |-> FALSE]


\* OnMismatch with the tests of lines 447 and 453 in the other order
OnMismatch_SecondsFirst(info) ==
  LET reduced == Reduce([info EXCEPT !.EqualityCounter = 0], 10)
  IN  IF DecLeq(reduced.DelayInSeconds, DecZero)
        THEN [info |-> [reduced EXCEPT !.DelayInSeconds = DecZero],
              done |-> TRUE, cause |-> "non_positive", program |-> FALSE]
      ELSE IF reduced.DelayTickVal = 0
        THEN [info |-> Fail(reduced), done |-> TRUE, cause |-> "zero_after_shrink",
              program |-> FALSE]
      ELSE [info |-> reduced, done |-> FALSE, cause |-> "none",
            program |-> FALSE]

\* lines 444-457: the frame rate obtained differs from the reference
OnMismatch(info) ==
  LET reduced == Reduce([info EXCEPT !.EqualityCounter = 0], 10)
  IN  IF reduced.DelayTickVal = 0
        THEN [info |-> Fail(reduced), done |-> TRUE, cause |-> "zero_after_shrink",
              program |-> FALSE]
      ELSE IF DecLeq(reduced.DelayInSeconds, DecZero)
        THEN [info |-> [reduced EXCEPT !.DelayInSeconds = DecZero],
              done |-> TRUE, cause |-> "non_positive", program |-> FALSE]
      ELSE [info |-> reduced, done |-> FALSE, cause |-> "none",
            program |-> FALSE]

\* lines 410-458
Compare(info) ==
  IF IsEqual(info.BaseFrameRate, info.ProcessFrameRate)
    THEN OnMatch(info)
    ELSE OnMismatch(info)

Find_Compare ==
  /\ pc = "compare"
  /\ LET r == Compare(PktInfo)
     IN  /\ PktInfo' = r.info
         /\ Done' = (Done \/ r.done)
         /\ delayRegister' =
              IF r.program THEN r.info.DelayTickVal ELSE delayRegister
         /\ hist' = [hist EXCEPT
              !.run.matchLog =
                 Append(@, IsEqual(PktInfo.BaseFrameRate, PktInfo.ProcessFrameRate)),
              !.run.stopCause = r.cause]
  /\ pc' = "sleep"
  /\ UNCHANGED <<isEqual, camera, streaming, Results, NbIterations, message>>

\* Find_Sleep without the MosSleep of line 460
Find_Sleep_NoWait ==
  /\ pc = "sleep"
  /\ pc' = IF Done THEN "store" ELSE "set_delay"
  /\ UNCHANGED <<isEqual, camera, delayRegister, streaming, PktInfo, Results,
                 NbIterations, Done, message, hist>>

\* MosSleep(500) and the test of while(!Done), lines 460 and 384
Find_Sleep ==
  /\ pc = "sleep"
  /\ hist' = [hist EXCEPT !.run.waits = @ + 1]
  /\ pc' = IF Done THEN "store" ELSE "set_delay"
  /\ UNCHANGED <<isEqual, camera, delayRegister, streaming, PktInfo, Results,
                 NbIterations, Done, message>>

\* StoreSolution without the test of line 464
StoreSolution_Always(res, info) ==
  IF InBounds(res.InterPacketDelayInTicks, res.Selection)
    THEN [res EXCEPT
            !.InterPacketDelayInTicks = Store(@, res.Selection, info.DelayTickVal),
            !.InterPacketDelayInSec = Store(@, res.Selection, info.DelayInSeconds),
            !.ObtainedFrameRate = Store(@, res.Selection, info.ProcessFrameRate)]
    ELSE res

\* lines 464-469, and the return, where Done goes out of scope; stores
\* outside the vectors that go through change nothing here
StoreSolution(res, info) ==
  IF info.Error = FALSE /\ InBounds(res.InterPacketDelayInTicks, res.Selection)
    THEN [res EXCEPT
            !.InterPacketDelayInTicks = Store(@, res.Selection, info.DelayTickVal),
            !.InterPacketDelayInSec = Store(@, res.Selection, info.DelayInSeconds),
            !.ObtainedFrameRate = Store(@, res.Selection, info.ProcessFrameRate)]
    ELSE res

Find_Store ==
  /\ pc = "store"
  /\ Results' = StoreSolution(Results, PktInfo)
  /\ hist' = [hist EXCEPT !.runs[Len(hist.runs)].outcome =
                IF PktInfo.Error THEN "failed" ELSE "solved"]
  /\ Done' = FALSE
  /\ pc' = "next_format"
  /\ UNCHANGED <<isEqual, camera, delayRegister, streaming, PktInfo, NbIterations,
                 message>>

(***************************************************************************)
(* The end of the loop body, and of MosMain.                               *)
(***************************************************************************)
\* lines 188-191: free the grab buffers, Results.Selection++
NextFormat ==
  /\ pc = "next_format"
  /\ Results' = [Results EXCEPT !.Selection = @ + 1]
  /\ pc' = "loop"
  /\ UNCHANGED <<isEqual, camera, delayRegister, streaming, PktInfo, NbIterations,
                 Done, message, hist>>

\* PrintResults, lines 195-197
PrintResults ==
  /\ pc = "print"
  /\ message' = "results"
  /\ pc' = "reset"
  /\ UNCHANGED <<isEqual, camera, delayRegister, streaming, PktInfo, Results,
                 NbIterations, Done, hist>>


\* ResetDelay without the register write of line 200
ResetDelay_Skipped ==
  /\ pc = "reset"
  /\ pc' = "exit"
  /\ UNCHANGED <<isEqual, camera, delayRegister, streaming, PktInfo, Results,
                 NbIterations, Done, message, hist>>

\* MdigControl(M_GC_INTER_PACKET_DELAY, 0), line 200, and the return
ResetDelay ==
  /\ pc = "reset"
  /\ delayRegister' = 0
  /\ hist' = [hist EXCEPT !.regWritten = TRUE]
  /\ pc' = "exit"
  /\ UNCHANGED <<isEqual, camera, streaming, PktInfo, Results, NbIterations, Done,
                 message>>

Next ==
  \/ CheckBoardType
  \/ InquireTickFrequency
  \/ EnumeratePixelFormats
  \/ SelectIterations
  \/ BeginRun
  \/ ApplyPixelFormat
  \/ OutOfBounds
  \/ AcquireReference_SetDelay
  \/ AcquireReference_Start
  \/ AcquireReference_Stop
  \/ AcquireReference_Inquire
  \/ Find_SetDelay
  \/ Find_Start
  \/ Find_Inquire
  \/ Find_Stop
  \/ Find_Compare
  \/ Find_Sleep
  \/ Find_Store
  \/ NextFormat
  \/ PrintResults
  \/ ResetDelay

Spec == Init /\ [][Next]_vars


(***************************************************************************)
(* IsEqual on its own: every pair of frame rates up to MaxFrameRate.       *)
(***************************************************************************)
\* largest frame rate compared, in hundredths of a frame per second
MaxFrameRate == 30

Init_IsEqual ==
  /\ isEqual \in {[A |-> a, B |-> b, ab |-> "none", ba |-> "none"] :
                    a \in 0..MaxFrameRate, b \in 0..MaxFrameRate}
  /\ camera \in {c \in ValidCameras : c.Count = 0 /\ c.TickFreq = 0
                                        /\ c.BoardType = GIGE_VISION}
  /\ delayRegister = 0
  /\ streaming = FALSE
  /\ pc = "is_equal"
  /\ PktInfo = PacketDelayInfo
  /\ Results = PacketDelayResults
  /\ NbIterations = 0
  /\ Done = FALSE
  /\ message = "none"
  /\ hist = HistInit

Verdict(b) == IF b THEN "equal" ELSE "different"

CallIsEqual ==
  /\ pc = "is_equal"
  /\ isEqual' = [isEqual EXCEPT !.ab = Verdict(IsEqual(isEqual.A, isEqual.B)),
                                !.ba = Verdict(IsEqual(isEqual.B, isEqual.A))]
  /\ pc' = "is_equal_done"
  /\ UNCHANGED <<camera, delayRegister, streaming, PktInfo, Results,
                 NbIterations, Done, message, hist>>

Spec_IsEqual == Init_IsEqual /\ [][CallIsEqual]_vars

(***************************************************************************)
(* Properties.                                                             *)
(***************************************************************************)
Last(q) == q[Len(q)]

RECURSIVE TrailingMatches(_)
\* how many comparisons at the end of the log matched
TrailingMatches(log) ==
  IF log = <<>> \/ ~Last(log) THEN 0
  ELSE 1 + TrailingMatches(SubSeq(log, 1, Len(log) - 1))

\* three matches in a row end at position i of the log
ThreeMatchesAt(log, i) == i >= 3 /\ log[i - 2] /\ log[i - 1] /\ log[i]

\* every measurement of the run so far was taken at a positive tick count
TicksStayedPositive == \A i \in 1..Len(hist.run.tickLog) : hist.run.tickLog[i] > 0

\* the comparison of the last measurement has been made
Compared ==
  /\ Len(hist.run.matchLog) >= 1
  /\ Len(hist.run.matchLog) = Len(hist.run.tickLog)

\* the search of the current run has stopped
Stopped == hist.run.stopCause # "none"

\* the search will make no further iteration
NotIterating == pc \notin {"set_delay", "start", "inquire", "stop", "compare"}
                  /\ (pc = "sleep" => Done)

\* d * n / 10^k
DecTimes(d, n, k) == Norm(MulDigits(d.m, n, 0), d.e + k)

\* t = floor(delay * freq): t <= delay * freq < t + 1
IsFloorOf(t, delay, freq) ==
  /\ DecLeq(DecOfInt(t), DecMulInt(delay, freq))
  /\ DecLess(DecMulInt(delay, freq), DecOfInt(t + 1))

\* the entry of run r's format in a result vector v that holds it
EntryOf(v, r) == v[r.format + 1]

\* C1: while every measurement of a run is taken at delayTicks > 0, the
\* equality counter is the number of matches at the end of the log, it is
\* within 0..3, and convergence is declared exactly when the log ends with
\* its first three matches in a row (so match, match, mismatch, match, match,
\* match converges at the 6th iteration and not before); the counter is 3
\* only at convergence.
C1_ConvergenceAtThirdMatch ==
  TicksStayedPositive =>
    LET log == hist.run.matchLog
    IN  /\ PktInfo.EqualityCounter \in 0..3
        /\ PktInfo.EqualityCounter = TrailingMatches(log)
        /\ (hist.run.stopCause = "converged") <=> ThreeMatchesAt(log, Len(log))
        /\ (hist.run.stopCause = "converged") <=> (PktInfo.EqualityCounter = 3)
        /\ \A i \in 1..(Len(log) - 1) : ~ThreeMatchesAt(log, i)
        /\ ThreeMatchesAt(log, Len(log)) => NotIterating

C1_Witness ==
  /\ TicksStayedPositive
  /\ hist.run.matchLog = <<TRUE, TRUE, FALSE, TRUE, TRUE, TRUE>>
  /\ hist.run.stopCause = "converged"
  /\ hist.run.iter = 6

\* C2: on three-streak convergence the final delay in seconds is 0.85 times
\* the delay the third match was measured at, the final tick count is the
\* floor of the final delay times the tick frequency, it is what the register
\* holds until the program resets it, and it is what the results hold; from
\* 0.0005 s at 1 MHz three straight matches give 0.00040817 s and 408 ticks.
C2_ConvergedDelay ==
  hist.run.stopCause = "converged" =>
    /\ PktInfo.DelayInSeconds = DecTimes(hist.run.measDelay, 85, 2)
    /\ IsFloorOf(PktInfo.DelayTickVal, PktInfo.DelayInSeconds, PktInfo.TickFreq)
    /\ pc # "exit" => delayRegister = PktInfo.DelayTickVal
    /\ (pc \notin {"sleep", "store"}
          /\ InBounds(Results.InterPacketDelayInTicks, Last(hist.runs).format)) =>
         /\ EntryOf(Results.InterPacketDelayInTicks, Last(hist.runs))
              = PktInfo.DelayTickVal
         /\ EntryOf(Results.InterPacketDelayInSec, Last(hist.runs))
              = PktInfo.DelayInSeconds
    /\ (/\ PktInfo.TickFreq = 1000000
        /\ hist.run.theoretical = Dec(5, 4)
        /\ hist.run.matchLog = <<TRUE, TRUE, TRUE>>) =>
         /\ PktInfo.DelayInSeconds = Dec(40817, 8)
         /\ PktInfo.DelayTickVal = 408

C2_Witness ==
  /\ hist.run.stopCause = "converged"
  /\ pc = "next_format"
  /\ PktInfo.TickFreq = 1000000
  /\ hist.run.theoretical = Dec(5, 4)
  /\ hist.run.matchLog = <<TRUE, TRUE, TRUE>>
  /\ delayRegister = 408
  /\ InBounds(Results.InterPacketDelayInTicks, Last(hist.runs).format)
  /\ EntryOf(Results.InterPacketDelayInTicks, Last(hist.runs)) = 408

\* C3: a match recorded at delayTicks = 0 stops the run with Error set,
\* whatever the equality counter is, the third match in a row included.
C3_ZeroTicksAtMatchFails ==
  (Compared /\ Last(hist.run.matchLog) /\ Last(hist.run.tickLog) = 0) =>
    /\ PktInfo.Error
    /\ hist.run.stopCause = "zero_at_match"
    /\ NotIterating

C3_Witness ==
  /\ Compared
  /\ hist.run.matchLog = <<TRUE, TRUE, TRUE>>
  /\ Last(hist.run.tickLog) = 0
  /\ PktInfo.EqualityCounter = 3
  /\ PktInfo.Error
  /\ pc = "store"

\* C4: a mismatch whose 10% shrink leaves delayTicks = 0 stops the run with
\* Error set; and a run that has stopped after mismatches only has Error set.
C4_ShrinkToZeroFails ==
  /\ (Compared /\ ~Last(hist.run.matchLog) /\ PktInfo.DelayTickVal = 0) =>
       /\ PktInfo.Error
       /\ hist.run.stopCause = "zero_after_shrink"
       /\ NotIterating
  /\ (Stopped /\ \A i \in 1..Len(hist.run.matchLog) : ~hist.run.matchLog[i]) =>
       PktInfo.Error

C4_Witness ==
  /\ hist.run.matchLog = <<FALSE, FALSE, FALSE, FALSE>>
  /\ hist.run.tickLog = <<1, 1, 1, 1>>
  /\ Stopped
  /\ PktInfo.Error
  /\ pc = "store"

\* the runs that ended with Error set and whose format has result entries
FailedRuns ==
  {i \in 1..Len(hist.runs) :
     /\ hist.runs[i].outcome = "failed"
     /\ InBounds(Results.ReferenceFrameRate, hist.runs[i].format)}

InReference == pc \in {"ref_delay", "ref_start", "ref_stop", "ref_inquire"}
InSearch == pc \in {"set_delay", "start", "inquire", "stop", "compare",
                    "sleep", "store"}

\* C6: on a GigE Vision system whose camera reports tick frequency 0, the
\* program prints the unsupported-camera message, which no other path
\* prints, and exits: the register is never written, the stream never
\* started, no run begun; and no search runs with TickFreq = 0.
C6_ZeroTickFrequencyStops ==
  /\ (camera.BoardType = GIGE_VISION /\ camera.TickFreq = 0) =>
       /\ pc \in {"board_type", "tick_frequency", "exit"}
       /\ pc = "exit" => message = "unsupported"
       /\ ~hist.regWritten
       /\ ~hist.streamStarted
       /\ hist.runs = <<>>
  /\ message = "unsupported" =>
       (pc = "exit" /\ camera.BoardType = GIGE_VISION /\ camera.TickFreq = 0)
  /\ (InReference \/ InSearch) => PktInfo.TickFreq # 0

C6_Witness ==
  /\ pc = "exit"
  /\ message = "unsupported"
  /\ camera.TickFreq = 0
  /\ camera.Count = MaxFormats
  /\ delayRegister = 7

\* the state a run starts from
FreshInfo == [PacketDelayInfo EXCEPT !.TickFreq = camera.TickFreq]

\* C7: when "All" of N formats is selected the runs are those of formats
\* 0, 1, ... in order, N of them once the loop has ended, whatever the
\* outcome of the earlier ones; and every run starts with PktInfo zeroed
\* (equality counter 0, Error false, delays and rates 0) but for the tick
\* frequency, and enters the search with Done false.
C7_RunsIndependent ==
  /\ \A i \in 1..Len(hist.runs) : hist.all => hist.runs[i].format = i - 1
  /\ (hist.all /\ pc \in {"print", "reset", "exit"}) =>
       /\ Len(hist.runs) = Len(Results.PixelFormats)
       /\ \A i \in 1..Len(hist.runs) : hist.runs[i].outcome \in {"solved", "failed"}
  /\ pc = "apply_format" => PktInfo = FreshInfo
  /\ InReference =>
       /\ PktInfo = FreshInfo
       /\ hist.run.iter = 0
  /\ (pc = "set_delay" /\ hist.run.iter = 0) =>
       /\ ~Done
       /\ PktInfo.EqualityCounter = 0
       /\ ~PktInfo.Error
       /\ PktInfo.ProcessFrameRate = 0

C7_Witness ==
  /\ hist.all
  /\ pc = "exit"
  /\ Len(hist.runs) = 2
  /\ hist.runs[1].outcome = "failed"
  /\ hist.runs[2].outcome = "solved"
  /\ Results.InterPacketDelayInTicks[2] > 0

\* C8: in every run the reference stream runs, and the reference frame rate
\* is read, with the delay register at 0: the register is 0 from the write
\* of AcquireReferenceFrameRate until the rate has been read.
C8_ReferenceAtZeroDelay ==
  /\ pc \in {"ref_start", "ref_stop", "ref_inquire"} => delayRegister = 0
  /\ hist.run.baseRegister \in {-1, 0}
  /\ (InSearch /\ hist.run.iter >= 1) => hist.run.baseRegister = 0

C8_Witness ==
  /\ pc = "ref_stop"
  /\ streaming
  /\ Len(hist.runs) = 2
  /\ hist.runs[1].outcome = "solved"
  /\ Results.InterPacketDelayInTicks[1] > 0
  /\ hist.run.baseRegister = 0

\* C9: with a tick frequency above 0, delayTicks is the floor of
\* delaySeconds times the tick frequency after AcquireReferenceFrameRate, at
\* every iteration and when the run has ended, and the register holds that
\* floor whenever the stream of an iteration is started.
C9_TicksAreFloor ==
  PktInfo.TickFreq > 0 =>
    /\ IsFloorOf(PktInfo.DelayTickVal, PktInfo.DelayInSeconds, PktInfo.TickFreq)
    /\ pc \in {"start", "inquire", "stop", "compare"} =>
         IsFloorOf(delayRegister, PktInfo.DelayInSeconds, PktInfo.TickFreq)

C9_Witness ==
  /\ pc = "start"
  /\ PktInfo.TickFreq = 2
  /\ PktInfo.DelayInSeconds = Dec(75, 2)
  /\ delayRegister = 1
  /\ PktInfo.DelayTickVal = 1

Abs(x) == IF x < 0 THEN -x ELSE x

C11_DelayNeverGrows ==
  InSearch =>
    /\ DecLeq(DecZero, PktInfo.DelayInSeconds)
    /\ DecLeq(PktInfo.DelayInSeconds, hist.run.theoretical)
    /\ DecLeq(hist.run.measDelay, hist.run.theoretical)
    /\ Compared => DecLeq(PktInfo.DelayInSeconds, hist.run.measDelay)

C11_Witness ==
  /\ pc = "store"
  /\ hist.run.stopCause = "converged"
  /\ hist.run.matchLog = <<TRUE, FALSE, TRUE, TRUE, TRUE>>
  /\ DecLess(DecZero, PktInfo.DelayInSeconds)
  /\ DecLess(PktInfo.DelayInSeconds, hist.run.measDelay)
  /\ DecLess(hist.run.measDelay, hist.run.theoretical)

\* no three comparisons in a row of the run matched: the frame rate never
\* was stable within the tolerance
NeverStable ==
  \A i \in 1..Len(hist.run.matchLog) : ~ThreeMatchesAt(hist.run.matchLog, i)

\* the theoretical delay of the run is at most n tenths of a tick
StartsWithinTenths(n) ==
  DecLeq(DecMulInt(hist.run.theoretical, 10 * PktInfo.TickFreq), DecOfInt(n))

ConvergedStop ==
  /\ Last(hist.run.matchLog)
  /\ Last(hist.run.tickLog) > 0
  /\ ThreeMatchesAt(hist.run.matchLog, Len(hist.run.matchLog))

\* a match measured at 0 ticks, or a mismatch whose shrink left 0 ticks
ZeroTickStop ==
  \/ Last(hist.run.matchLog) /\ Last(hist.run.tickLog) = 0
  \/ ~Last(hist.run.matchLog) /\ PktInfo.DelayTickVal = 0

\* a mismatch whose shrink left a delay <= 0 at a tick count other than 0
NonPositiveStop ==
  /\ ~Last(hist.run.matchLog)
  /\ PktInfo.DelayTickVal # 0
  /\ DecLeq(DecTimes(hist.run.measDelay, 9, 1), DecZero)

\* the loop of FindInterPacketDelay has been left, or is about to be
SearchEnded == pc = "store" \/ (pc = "sleep" /\ Done)

\* C13: the search ends exactly when the last iteration met one of the three
\* stop conditions, of which at most one holds; Error is set iff it was the
\* zero-tick condition; before the first comparison of a run nothing has
\* stopped it and Error is clear.
C13_ThreeStopConditions ==
  InSearch =>
    IF Compared
      THEN /\ SearchEnded <=> (ConvergedStop \/ ZeroTickStop \/ NonPositiveStop)
           /\ ~(ConvergedStop /\ ZeroTickStop)
           /\ ~(ConvergedStop /\ NonPositiveStop)
           /\ ~(ZeroTickStop /\ NonPositiveStop)
           /\ PktInfo.Error <=> (SearchEnded /\ ZeroTickStop)
           /\ Stopped <=> SearchEnded
           /\ ConvergedStop <=> (hist.run.stopCause = "converged")
           /\ NonPositiveStop <=> (hist.run.stopCause = "non_positive")
      ELSE ~SearchEnded /\ ~Stopped /\ ~PktInfo.Error

C13_Witness ==
  /\ pc = "store"
  /\ Len(hist.run.matchLog) = 3
  /\ ZeroTickStop
  /\ ~Last(hist.run.matchLog)
  /\ Last(hist.run.tickLog) > 0
  /\ hist.run.matchLog[1]
  /\ PktInfo.Error
  /\ ~ConvergedStop
  /\ ~NonPositiveStop

\* C14: an iteration that does not end the search leaves exactly 98% of the
\* delay it measured with after a match, the equality counter then being 1
\* or 2, and exactly 90% after a mismatch, the counter then being 0; the
\* delay does not change between the measurement and the comparison, nor
\* between the comparison and the next measurement.
C14_StepPolicy ==
  InSearch =>
    /\ (Compared /\ ~SearchEnded) =>
         IF Last(hist.run.matchLog)
           THEN /\ PktInfo.DelayInSeconds = DecTimes(hist.run.measDelay, 98, 2)
                /\ PktInfo.EqualityCounter \in {1, 2}
           ELSE /\ PktInfo.DelayInSeconds = DecTimes(hist.run.measDelay, 9, 1)
                /\ PktInfo.EqualityCounter = 0
    /\ pc \in {"stop", "compare"} => PktInfo.DelayInSeconds = hist.run.measDelay

C14_Witness ==
  /\ pc = "sleep"
  /\ ~Done
  /\ hist.run.matchLog = <<FALSE, TRUE, TRUE>>
  /\ Len(hist.run.tickLog) = 3
  /\ PktInfo.EqualityCounter = 2
  /\ DecLess(DecZero, PktInfo.DelayInSeconds)
  /\ PktInfo.DelayInSeconds = DecTimes(hist.run.theoretical, 86436, 5)

\* the positions at which the stream of a run is being acquired
Acquiring == pc \in {"ref_stop", "inquire", "stop"}

\* C15: every measurement of the search is taken with the register equal to
\* the ticks of the iteration; the stream runs exactly from a start to the
\* stop that follows it, so starts and stops alternate and none is left open
\* at the end; and the register is never written while the stream runs, so
\* the write of an iteration came before its start.
C15_WriteStartMeasureStop ==
  /\ [](/\ streaming <=> Acquiring
        /\ (InSearch /\ Len(hist.run.tickLog) >= 1) =>
             hist.run.measRegister = Last(hist.run.tickLog)
        /\ pc \in {"start", "inquire", "stop"} =>
             delayRegister = PktInfo.DelayTickVal)
  /\ [][streaming => delayRegister' = delayRegister]_vars

C15_Witness ==
  /\ pc = "stop"
  /\ streaming
  /\ hist.run.iter = 2
  /\ hist.run.tickLog = <<500, 450>>
  /\ hist.run.measRegister = 450
  /\ delayRegister = 450

\* C16: the reference frame rate of a run is zero until AcquireReferenceFrameRate
\* measures it and from then on is the measured value at every position of
\* the search, which no step of the search changes; the tick frequency is the
\* one the camera reported, and no step of the search changes it either.
C16_BaselineFixedInSearch ==
  /\ [](/\ (InReference \/ pc = "apply_format") => PktInfo.BaseFrameRate = 0
        /\ InSearch => /\ PktInfo.BaseFrameRate = Last(hist.runs).reference
                       /\ PktInfo.BaseFrameRate \in BaseFrameRates
                       /\ PktInfo.TickFreq = camera.TickFreq)
  /\ [][InSearch => /\ PktInfo'.BaseFrameRate = PktInfo.BaseFrameRate
                    /\ PktInfo'.TickFreq = PktInfo.TickFreq]_vars

C16_Witness ==
  /\ pc = "store"
  /\ hist.run.iter >= 3
  /\ \E i \in 1..Len(hist.run.matchLog) : hist.run.matchLog[i]
  /\ ~Last(hist.run.matchLog)
  /\ PktInfo.BaseFrameRate = 3000
  /\ PktInfo.ProcessFrameRate = 2989
  /\ Last(hist.runs).reference = 3000
  /\ PktInfo.TickFreq = 1000000

\* C17: the search waits for the camera to settle once after the delay
\* update of every iteration and before anything of the next one: when the
\* register is about to be written the waits are as many as the comparisons
\* made, and from the register write to the comparison of iteration n there
\* have been n - 1 waits, one between each two measurements in a row.
C17_SettlingWaitBetweenMeasurements ==
  /\ pc \in {"set_delay", "store"} =>
       /\ hist.run.waits = Len(hist.run.matchLog)
       /\ hist.run.waits = hist.run.iter
  /\ pc \in {"start", "inquire", "stop", "compare"} =>
       /\ hist.run.waits = Len(hist.run.matchLog)
       /\ hist.run.waits = hist.run.iter - 1
  /\ pc = "sleep" =>
       /\ hist.run.waits = Len(hist.run.matchLog) - 1
       /\ hist.run.waits = hist.run.iter - 1

C17_Witness ==
  /\ pc = "inquire"
  /\ hist.run.iter = 3
  /\ hist.run.waits = 2
  /\ Len(hist.run.tickLog) = 2
  /\ hist.run.matchLog = <<TRUE, FALSE>>

\* C18: the register is reset after the results are printed, all runs being
\* over, and the program that returns from there leaves the register at 0
\* and the stream stopped; the two early exits, of a system that is not GigE
\* Vision and of a tick frequency of 0, return without a run and with the
\* register never written, the checks that lead to them leaving it as it was.
C18_RegisterResetOnExit ==
  /\ [](/\ pc = "reset" => (message = "results" /\ NbIterations = 0)
        /\ pc = "exit" =>
             IF message = "results"
               THEN delayRegister = 0 /\ ~streaming /\ hist.regWritten
               ELSE /\ message \in {"not_gige", "unsupported"}
                    /\ ~hist.regWritten
                    /\ hist.runs = <<>>
                    /\ delayRegister \in InitialDelayRegisters)
  /\ [][(pc = "board_type" \/ pc = "tick_frequency") =>
          delayRegister' = delayRegister]_vars

C18_Witness ==
  /\ pc = "exit"
  /\ message = "results"
  /\ delayRegister = 0
  /\ hist.runs # <<>>
  /\ Last(hist.runs).outcome = "solved"
  /\ InBounds(Results.InterPacketDelayInTicks, Last(hist.runs).format)
  /\ EntryOf(Results.InterPacketDelayInTicks, Last(hist.runs)) = 408

\* C19, as claimed: a search that has ended with Error clear holds a tick
\* count above 0, the one line 431 wrote to the register, and that count is
\* what the run stores as its result.
C19_SolvedRunHasPositiveDelay ==
  /\ (InSearch /\ SearchEnded /\ ~PktInfo.Error) =>
       /\ PktInfo.DelayTickVal > 0
       /\ delayRegister > 0
  /\ (pc = "next_format" /\ Last(hist.runs).outcome = "solved"
        /\ InBounds(Results.InterPacketDelayInTicks, Last(hist.runs).format)) =>
       EntryOf(Results.InterPacketDelayInTicks, Last(hist.runs)) > 0

\* C20: the branch of a delay <= 0 at a tick count other than 0 is never
\* taken: a tick count other than 0 goes with a delay above 0, so a mismatch
\* whose shrink leaves a delay <= 0 leaves 0 ticks and is a zero-tick
\* failure; every search that has ended with Error clear ended at the third
\* match in a row, and every other one that has ended has Error set.
C20_NonPositiveStopUnreachable ==
  InSearch =>
    /\ hist.run.stopCause # "non_positive"
    /\ PktInfo.DelayTickVal # 0 => DecLess(DecZero, PktInfo.DelayInSeconds)
    /\ (Compared /\ ~Last(hist.run.matchLog)
          /\ DecLeq(DecTimes(hist.run.measDelay, 9, 1), DecZero)) =>
         (PktInfo.DelayTickVal = 0 /\ PktInfo.Error)
    /\ SearchEnded =>
         IF PktInfo.Error
           THEN hist.run.stopCause \in {"zero_at_match", "zero_after_shrink"}
           ELSE hist.run.stopCause = "converged" /\ ConvergedStop

C20_Witness ==
  /\ pc = "store"
  /\ hist.run.theoretical = DecZero
  /\ hist.run.matchLog = <<FALSE>>
  /\ hist.run.tickLog = <<0>>
  /\ DecLeq(DecTimes(hist.run.measDelay, 9, 1), DecZero)
  /\ hist.run.stopCause = "zero_after_shrink"
  /\ PktInfo.Error

\* the current run has converged and its solution is stored in the vectors
ConvergedAndStored ==
  /\ pc = "next_format"
  /\ hist.run.stopCause = "converged"
  /\ InBounds(Results.ObtainedFrameRate, Last(hist.runs).format)

\* C21, as claimed: the obtained frame rate stored for a converged run is the
\* one measured at the third match, and the delay of that measurement is
\* above the stored delay both in seconds and in ticks.
C21_MeasuredAboveStoredDelay ==
  ConvergedAndStored =>
    /\ EntryOf(Results.ObtainedFrameRate, Last(hist.runs)) = hist.run.measRate
    /\ DecLess(EntryOf(Results.InterPacketDelayInSec, Last(hist.runs)),
               hist.run.measDelay)
    /\ EntryOf(Results.InterPacketDelayInTicks, Last(hist.runs))
         < hist.run.measRegister

\* C21, amended: the obtained frame rate stored for a converged run is the
\* one measured at the third match, with the register at the ticks of that
\* iteration; the delay of that measurement is above the stored delay in
\* seconds and at least the stored delay in ticks; and from the convergence
\* on the run measures nothing more: the stream stays stopped and the logs
\* end with the third match, while the register holds the stored ticks.
C21_MeasuredBeforeMargin ==
  /\ ConvergedAndStored =>
       /\ EntryOf(Results.ObtainedFrameRate, Last(hist.runs)) = hist.run.measRate
       /\ DecLess(EntryOf(Results.InterPacketDelayInSec, Last(hist.runs)),
                  hist.run.measDelay)
       /\ EntryOf(Results.InterPacketDelayInTicks, Last(hist.runs))
            <= hist.run.measRegister
       /\ delayRegister = EntryOf(Results.InterPacketDelayInTicks, Last(hist.runs))
  /\ (hist.run.stopCause = "converged" /\ pc \in {"sleep", "store", "next_format"}) =>
       /\ ~streaming
       /\ Len(hist.run.tickLog) = hist.run.iter
       /\ Len(hist.run.matchLog) = hist.run.iter
       /\ ThreeMatchesAt(hist.run.matchLog, hist.run.iter)
       /\ hist.run.measRegister = Last(hist.run.tickLog)
       /\ IsEqual(PktInfo.BaseFrameRate, hist.run.measRate)
       /\ DecLess(PktInfo.DelayInSeconds, hist.run.measDelay)

C21_Witness ==
  /\ ConvergedAndStored
  /\ hist.run.measRegister = 1
  /\ EntryOf(Results.InterPacketDelayInTicks, Last(hist.runs)) = 1
  /\ delayRegister = 1
  /\ EntryOf(Results.ObtainedFrameRate, Last(hist.runs)) = 2990
  /\ DecLess(EntryOf(Results.InterPacketDelayInSec, Last(hist.runs)),
             hist.run.measDelay)

\* the positions of a run of the loop of MosMain, before Selection++
InRun == pc = "apply_format" \/ InReference \/ InSearch

\* C22, as claimed: in every run Selection is an index of PixelFormats,
\* which is no longer than the result vectors, and so is the format of
\* every run begun so far; and a camera that reports no pixel format, or
\* none that is compatible, has no run at all.
C22_SelectionInBounds ==
  /\ InRun =>
       /\ InBounds(Results.PixelFormats, Results.Selection)
       /\ Len(Results.PixelFormats) <= Len(Results.InterPacketDelayInTicks)
       /\ Len(Results.PixelFormats) <= Len(Results.InterPacketDelayInSec)
       /\ Len(Results.PixelFormats) <= Len(Results.ReferenceFrameRate)
       /\ Len(Results.PixelFormats) <= Len(Results.ObtainedFrameRate)
  /\ \A i \in 1..Len(hist.runs) :
       InBounds(Results.PixelFormats, hist.runs[i].format)
  /\ (camera.Count = 0 \/ CompatibleFormats(camera, 0) = <<>>) =>
       (hist.runs = <<>> /\ ~InRun)

====
